---- MODULE Spec2Model ----
(***************************************************************************)
(* Model of the real-time voice pipeline of kamaraj/voicebot:              *)
(*   src/src/services/fastrtc_service.py  (VoiceActivityDetector,          *)
(*       FastRTCPipeline, FastRTCService)                                  *)
(*   src/src/api/fastrtc_websocket.py     (_process_audio,                 *)
(*       process_audio_http)                                               *)
(*                                                                         *)
(* Audio is modelled byte by byte: a byte string is a sequence whose       *)
(* elements give, for every byte, the magnitude (in tenths of full scale)  *)
(* of the 16-bit sample the byte belongs to.  Energies are therefore       *)
(* integers 0..10 standing for 0.0..1.0, and the VAD threshold 0.3 is 3.   *)
(* Time is the value of time.time() in milliseconds.                       *)
(*                                                                         *)
(* Six specifications:                                                     *)
(*   Spec      the pipeline: frames, utterance dispatch and the STT, LLM   *)
(*             and TTS stages, step by step between suspension points      *)
(*   RegSpec   the registry: create_session, end_session, last_activity    *)
(*             and cleanup_stale_sessions, under any caller                *)
(*   LiveSpec  the registry as the deployed application drives it, with    *)
(*             time passing                                                *)
(*   VadSpec   one VoiceActivityDetector, fed any byte strings             *)
(*   ConnSpec  one websocket connection of /fastrtc/stream, message by     *)
(*             message (src/src/api/fastrtc_websocket.py)                  *)
(*   CacheSpec ResponseCache under several threads                         *)
(*             (src/src/memory/cache.py)                                   *)
(* Spec does not follow last_activity, call and ended; RegSpec and         *)
(* LiveSpec do not follow run, nruns and fed, and of sess RegSpec          *)
(* follows the state process_complete_audio sets.  probe belongs to        *)
(* VadSpec, conn to ConnSpec, and cache, lock, thread and stats to         *)
(* CacheSpec.                                                              *)
(***************************************************************************)
EXTENDS Integers, Sequences, FiniteSets, TLC

VARIABLES
    now,        \* time.time(), in ms
    created,    \* ids of every VoiceSession object ever constructed
    registry,   \* keys of FastRTCService.sessions
    sess,       \* the VoiceSession objects, by session_id
    vad,        \* FastRTCService.vad, the one detector of the service
    run,        \* per session and entry path: the call in flight / last finished
    nruns,      \* pipeline calls started so far
    fed,        \* per session: what its client has sent since the session was created
    total_requests, \* FastRTCPipeline.total_requests
    last_activity,  \* VoiceSession.last_activity, by session_id
    call,       \* the last call made on the registry, and what it returned
    ended,      \* ids for which end_session has returned True
    probe,      \* the last call of VoiceActivityDetector.process: argument, result
    conn,       \* one run of websocket_voice_stream: its locals, its last reply
    cache,      \* ResponseCache.cache: key -> timestamp of the entry
    lock,       \* ResponseCache._lock: the thread holding it, 0 if free
    thread,     \* per thread: where it is inside a ResponseCache method
    stats       \* ResponseCache.hits and misses, and what the last get returned

vars == <<now, created, registry, sess, vad, run, nruns, fed, total_requests,
          last_activity, call, ended, probe, conn, cache, lock, thread, stats>>

\* what the registry specification follows beside now, created and registry
regvars == <<last_activity, call, ended>>

\* what the pipeline specification follows beside now, created and registry
pipevars == <<sess, vad, run, nruns, fed, total_requests>>

\* what only the detector, connection and cache specifications follow
sidevars == <<probe, conn, cache, lock, thread, stats>>

---------------------------------------------------------------------------
(* Bounds of the model *)

NIds == 2           \* session ids uuid4 can deliver in one behaviour
MaxTicks == 1       \* clock advances
MaxBufBytes == 6    \* bytes buffered at most, over all sessions
MaxLoad == 3        \* sessions created plus pipeline calls started
MaxChunks == 2      \* chunks one TTS stream yields at most
TickMs == 1500      \* ms per clock advance

Ids == 1..NIds
Kinds == {"stream", "http"}
None == -1

\* FastRTCService.config["max_sessions"]: 100 in the source, scaled to the id pool
max_sessions == NIds - 1

\* VoiceActivityDetector defaults
threshold == 3
smoothing_frames == 5

\* VoiceSession.config defaults
vad_threshold == 3
silence_timeout_ms == 1500

\* VoiceSession.config["max_audio_duration_ms"] in bytes of audio: 30 s in the
\* source, scaled to one frame less than the model lets a buffer hold
max_audio_bytes == MaxBufBytes - 2

\* The frames a client sends: a silent sample, a loud sample
AudioFrames == { <<0, 0>>, <<10, 10>> }

\* Payloads of the non-streaming endpoint
HttpPayloads == { <<10, 10>> }

\* What an STT handler can return
Transcripts == { <<>>, <<" ">>, <<"a">> }

\* the STT handler has not returned (no transcript)
NotReturned == <<"?">>

---------------------------------------------------------------------------
(* Helpers *)

RECURSIVE SeqSum(_)
SeqSum(s) == IF s = <<>> THEN 0 ELSE Head(s) + SeqSum(Tail(s))

Min(a, b) == IF a < b THEN a ELSE b

ISqrt(n) == CHOOSE r \in 0..n : r * r <= n /\ (r + 1) * (r + 1) > n

\* struct.unpack("<{n}h", chunk): the n = len//2 samples of an even-length chunk
Samples(chunk) == [i \in 1..(Len(chunk) \div 2) |-> chunk[2 * i - 1]]

RECURSIVE SumSq(_)
SumSq(s) == IF s = <<>> THEN 0 ELSE Head(s) * Head(s) + SumSq(Tail(s))

---------------------------------------------------------------------------
(* VoiceActivityDetector *)

VadInit == [energy_history |-> <<>>, is_speaking |-> FALSE, silence_start |-> None]

\* an energy that leaves the odd byte out and takes the samples before it
calculate_energy_Truncating(chunk) ==
    IF Len(chunk) < 2 THEN 0
    ELSE LET samples == Samples(chunk)
         IN  Min(10, ISqrt(SumSq(samples) \div Len(samples)))

\* _calculate_energy: 0.0 below two bytes; struct.unpack raises on an odd length
\* (the format needs exactly 2*(len//2) bytes) and the except clause returns 0.0
calculate_energy(chunk) ==
    IF Len(chunk) < 2 THEN 0
    ELSE IF Len(chunk) % 2 # 0 THEN 0
    ELSE LET samples == Samples(chunk)
         IN  Min(10, ISqrt(SumSq(samples) \div Len(samples)))

\* a classification that also takes a mean equal to the threshold as speech
IsSpeech_Inclusive(history, thr) == SeqSum(history) >= thr * Len(history)

\* avg_energy > self.threshold, with avg = sum / len
IsSpeech(history, thr) == SeqSum(history) > thr * Len(history)

\* a detector that stamps the silence anew on every frame that is not speech
SilenceStart_Restamped(v, speaking, t) == IF speaking THEN None ELSE t

\* lines 114-118: silence_start after a frame classified as speaking or not
SilenceStart(v, speaking, t) ==
    IF v.is_speaking /\ ~speaking THEN t
    ELSE IF speaking THEN None
    ELSE v.silence_start

\* VoiceActivityDetector.process at time t: the detector afterwards
vad_process(v, chunk, t) ==
    LET energy == calculate_energy(chunk)
        h1 == Append(v.energy_history, energy)
        h2 == IF Len(h1) > smoothing_frames THEN Tail(h1) ELSE h1
        speaking == IsSpeech(h2, threshold)
    IN  [energy_history |-> h2,
         is_speaking |-> speaking,
         silence_start |-> SilenceStart(v, speaking, t)]

get_silence_duration_ms(v, t) ==
    IF v.silence_start = None THEN 0 ELSE t - v.silence_start

---------------------------------------------------------------------------
(* VoiceSession and the bookkeeping of one call *)

NewSession ==
    [state |-> "idle",
     audio_buffer |-> <<>>,
     transcript_buffer |-> <<>>,
     stt_calls |-> 0, llm_calls |-> 0, tts_calls |-> 0,
     config |-> [vad_threshold |-> vad_threshold,
                 silence_timeout_ms |-> silence_timeout_ms]]

\* pc: where the call is suspended
\*   "none"  no call made yet          "stt"  awaiting the STT handler
\*   "llm"   awaiting the LLM handler  "tts"  awaiting the next TTS chunk
\*   "fwd"   the websocket handler is sending a chunk it received
\*   "done"  the call has returned or raised
\* The other fields record what the call did, for the properties below; a
\* finished call keeps its outcome, the handlers it invoked, the transcript it
\* was given and what its client was sent.  While a streamed call is in
\* flight, msgs holds what _process_audio has sent inside its loop, in order:
\* the states of its state_change messages, "transcript", "audio" for a chunk.
NoRun ==
    [pc |-> "none", outcome |-> "none", audio |-> <<>>, pre |-> <<0, 0, 0>>,
     calls |-> <<>>, yielded |-> 0, got |-> <<>>, sent |-> <<>>, msgs |-> <<>>,
     errs |-> 0,
     overlap |-> FALSE, fed |-> "none", loud |-> <<>>, heard |-> <<>>,
     returned |-> NotReturned]

InFlight(r) == r.pc \in {"stt", "llm", "tts", "fwd"}

Counters(se) == <<se.stt_calls, se.llm_calls, se.tts_calls>>

\* a blank test without the strip(): "not transcript"
IsBlank_Unstripped(t) == t = <<>>

\* transcript.strip() is empty
IsBlank(t) == \A i \in 1..Len(t) : t[i] = " "

\* The frames of a session so far, as the client sees them.  "speech" and
\* "silence" are followed for the first session of the service, while it is
\* the only one; "quiet" is followed for every session:
\*   pattern  "start"    none yet
\*            "speech"   one or more frames of energy above the threshold
\*            "silence"  such frames, then one or more frames not above it
\*            "quiet"    no frame of energy above the threshold yet
\*            "other"    anything else
\*   loud     the bytes of the frames of energy above the threshold (followed
\*            only while they fit the buffer bound: then the pattern is "other")
\*   heard    the bytes of the frames the detector classified as speech
NoFrames == [pattern |-> "start", loud |-> <<>>, heard |-> <<>>]

IsLoud(chunk) == calculate_energy(chunk) > threshold

NextPattern(p, chunk) ==
    IF p = "start" THEN (IF IsLoud(chunk) THEN "speech" ELSE "quiet")
    ELSE IF p = "quiet" THEN (IF IsLoud(chunk) THEN "other" ELSE "quiet")
    ELSE IF p = "speech" THEN (IF IsLoud(chunk) THEN "speech" ELSE "silence")
    ELSE IF p = "silence" THEN (IF IsLoud(chunk) THEN "other" ELSE "silence")
    ELSE p

Fed(f, chunk, classified) ==
    LET q == NextPattern(f.pattern, chunk)
        p == IF IsLoud(chunk) /\ Len(f.loud) + Len(chunk) > MaxBufBytes
             THEN "other" ELSE q
    IN  [pattern |-> p,
         loud |-> IF p \in {"speech", "silence"}
                  THEN (IF IsLoud(chunk) THEN f.loud \o chunk ELSE f.loud)
                  ELSE <<>>,
         heard |-> IF classified THEN f.heard \o chunk ELSE f.heard]

AfterDispatch == [pattern |-> "other", loud |-> <<>>, heard |-> <<>>]

Unfollowed(f) ==
    [f EXCEPT !.pattern = IF @ \in {"start", "quiet"} THEN "quiet" ELSE "other",
              !.loud = <<>>]

\* a session is created: it is followed if it is the first
FedOnCreate(id) ==
    [x \in Ids |-> IF x = id
                   THEN (IF created = {} THEN NoFrames ELSE Unfollowed(NoFrames))
                   ELSE Unfollowed(fed[x])]

\* no call has been made on the registry
NoCall == [op |-> "none", id |-> 0, ret |-> TRUE, count |-> 0, timeout |-> 0]

\* VoiceActivityDetector.process has not been called
\*   chunk, at    the argument and the time of the last call
\*   energy       what _calculate_energy gave for the chunk
\*   is_speech, avg   the pair returned, avg as <<sum, len>> of the window
\*   spoke        some call so far has returned is_speech = True
NoProbe == [called |-> FALSE, chunk |-> <<>>, at |-> 0, energy |-> 0,
            is_speech |-> FALSE, avg |-> <<0, 0>>, spoke |-> FALSE]

\* websocket_voice_stream once its loop is entered (lines 107-121): no session,
\* nothing received.  msg is the last message received, errors the number of
\* error messages sent in answer to it, reply the type of the other message
\* sent in answer, started the ids of the sessions its start_session messages
\* created.
ConnInit == [open |-> TRUE, session |-> None, started |-> {}, msg |-> "none",
             errors |-> 0, reply |-> "none"]

\* threads calling into the one ResponseCache
Threads == {1, 2}

\* a thread that is outside every ResponseCache method.  Inside one, pc is
\*   "set_wait", "get_wait", "clear_wait"   at `with self._lock`
\*   "set_loop"    at the while test of set      "set_store"  past the loop
\*   "get_body", "clear_body"                    holding the lock
\* key is the key of the call, val the response a set call brings, evicted the
\* entries the call has evicted.
Outside == [pc |-> "idle", key |-> 0, val |-> 0, evicted |-> 0]

\* ResponseCache.__init__: hits = misses = 0.  gets counts the get calls that
\* have returned; hit, key, val and age tell what the last of them found (val
\* is None for a miss, age is that of the entry it found, None if none).
NoStats == [hits |-> 0, misses |-> 0, gets |-> 0,
            hit |-> FALSE, key |-> 0, val |-> None, age |-> None]

Init ==
    /\ now = 0
    /\ created = {}
    /\ registry = {}
    /\ sess = [s \in Ids |-> NewSession]
    /\ vad = VadInit
    /\ run = [s \in Ids |-> [k \in Kinds |-> NoRun]]
    /\ nruns = 0
    /\ fed = [s \in Ids |-> Unfollowed(NoFrames)]
    /\ last_activity = [s \in Ids |-> 0]
    /\ call = NoCall
    /\ ended = {}
    /\ probe = NoProbe
    /\ conn = ConnInit
    /\ cache = <<>>
    /\ lock = 0
    /\ thread = [t \in Threads |-> Outside]
    /\ stats = NoStats
    /\ total_requests = 0

---------------------------------------------------------------------------
(* FastRTCService: registry *)

\* a truncated id that can repeat one given out before
FreshIds_Repeating == Ids

\* uuid.uuid4().hex[:12]: an id no session object has had before
FreshIds == Ids \ created

\* what a behaviour has used of its budget of sessions and pipeline calls
Load == Cardinality(created) + nruns

\* create_session: builds the session and stores it; no capacity check is made
CreateSession(id) ==
    /\ id \in FreshIds
    /\ Load < MaxLoad
    /\ created' = created \cup {id}
    /\ registry' = registry \cup {id}
    /\ sess' = [sess EXCEPT ![id] = NewSession]
    /\ fed' = FedOnCreate(id)
    /\ UNCHANGED <<regvars, sidevars, total_requests>>
    /\ UNCHANGED <<now, vad, run, nruns>>

\* end_session: pops the id if present.  The VoiceSession object lives on for
\* whoever still holds it (a pipeline call in flight, a websocket handler).
EndSession(id) ==
    /\ id \in created
    /\ registry' = registry \ {id}
    /\ UNCHANGED <<regvars, sidevars, total_requests>>
    /\ UNCHANGED <<now, created, sess, vad, run, nruns, fed>>

\* time passes
Tick ==
    /\ now < MaxTicks * TickMs
    /\ now' = now + TickMs
    /\ UNCHANGED <<regvars, sidevars, total_requests>>
    /\ UNCHANGED <<created, registry, sess, vad, run, nruns, fed>>

---------------------------------------------------------------------------
(* FastRTCPipeline.process_audio_stream, between its suspension points *)

\* a call that starts the LLM handler together with the STT handler
StartRun_Eager(se, audio, overlapped) ==
    [NoRun EXCEPT !.pc = "stt", !.audio = audio, !.pre = Counters(se),
                  !.calls = <<"stt", "llm">>, !.overlap = overlapped]

\* the call starts: the STT handler is invoked with the audio
StartRun(se, audio, overlapped) ==
    [NoRun EXCEPT !.pc = "stt", !.audio = audio, !.pre = Counters(se),
                  !.calls = <<"stt">>, !.overlap = overlapped]

\* a call that ended at once, without reaching the pipeline, leaves no record
EndedRun(outcome) == NoRun

\* lines 196-198, after a non-blank transcript
AfterSTT(se, t) ==
    [se EXCEPT !.transcript_buffer = t, !.stt_calls = @ + 1]

\* an LLM stage that is not counted
AfterLLM_Uncounted(se) == se

\* line 214
AfterLLM(se) == [se EXCEPT !.llm_calls = @ + 1]

\* a TTS stage that is not counted
AfterTTS_Uncounted(se) == se

\* line 226
AfterTTS(se) == [se EXCEPT !.tts_calls = @ + 1]

\* an except clause that re-raises without marking the session
OnError_StateKept(se) == se

\* lines 251-254: except Exception: session.state = ERROR; raise
OnError(se) == [se EXCEPT !.state = "error"]

\* the wrapper's statement after its async-for loop (lines 397 and 423)
LoopExhausted(se) == [se EXCEPT !.state = "idle"]

\* the wrapper's loop body (lines 394 and 420)
OnChunk(se) == [se EXCEPT !.state = "speaking"]

\* a transport that swallows the exception: nothing is surfaced
Raised_Unreported(r, k, stage) ==
    [NoRun EXCEPT !.pc = "done", !.outcome = stage, !.errs = r.errs,
                  !.sent = r.sent, !.calls = r.calls, !.returned = r.returned]

\* What the transport does with an exception of the call: _process_audio sends
\* one error message (lines 262-267); process_audio_http returns {"error": ...}
\* and drops the chunks it had collected (lines 451-453).
Raised(r, k, stage) ==
    [NoRun EXCEPT !.pc = "done", !.outcome = stage, !.errs = r.errs + 1,
                  !.sent = r.sent, !.calls = r.calls, !.returned = r.returned]

\* What the transport does when the call's chunk sequence ends: the websocket
\* handler has sent every chunk already; process_audio_http returns the joined
\* chunks in its one response (lines 442-449).
Returned(r, k, outcome) ==
    [NoRun EXCEPT !.pc = "done", !.outcome = outcome, !.errs = r.errs,
                  !.sent = IF k = "http" THEN r.got ELSE r.sent,
                  !.calls = r.calls, !.returned = r.returned]

\* a wrapper that takes the chunk from the pipeline but holds it back
Deliver_Buffered(r, k) == [r EXCEPT !.yielded = @ + 1]

\* The pipeline yields a chunk and the wrapper passes it on: the websocket
\* handler then awaits its sends (lines 246-253), process_audio_http appends
\* the chunk and asks for the next one at once (line 439).
Deliver(r, k) ==
    [r EXCEPT !.yielded = @ + 1, !.got = Append(@, r.yielded + 1),
              !.pc = IF k = "stream" THEN "fwd" ELSE "tts"]

\* await websocket.send_bytes(response_chunk); then the next chunk is requested
Forward(r) ==
    [r EXCEPT !.sent = Append(@, r.got[Len(r.got)]), !.msgs = Append(@, "audio"),
              !.pc = "tts"]

\* _process_audio, lines 233-250: the JSON messages sent when a chunk arrives,
\* by the state the session has at that moment
ChunkMessages(se) ==
    (IF se.state = "processing"
     THEN <<"processing">> \o
          (IF se.transcript_buffer # <<>> THEN <<"transcript">> ELSE <<>>)
     ELSE <<>>)
    \o (IF se.state = "speaking" THEN <<"speaking">> ELSE <<>>)

\* the websocket handler sends them before the chunk; process_audio_http
\* sends nothing
Announce(r, k, se) ==
    IF k = "stream" THEN [r EXCEPT !.msgs = @ \o ChunkMessages(se)] ELSE r

\* the STT handler returned t (line 187); the audio is no longer held
GotTranscript(r, t) ==
    [r EXCEPT !.audio = <<>>, !.fed = "none", !.loud = <<>>, !.heard = <<>>,
              !.returned = t, !.calls = Append(@, "stt_ret")]

\* line 204: the LLM handler is invoked
InvokeLLM(r) == [r EXCEPT !.pc = "llm", !.calls = Append(@, "llm")]

\* lines 211-220: the LLM handler returned, the TTS handler is invoked
InvokeTTS(r) == [r EXCEPT !.pc = "tts", !.calls = @ \o <<"llm_ret", "tts">>]

STTReturn(s, k, t) ==
    /\ run[s][k].pc = "stt"
    /\ IF IsBlank(t)
       THEN /\ sess' = [sess EXCEPT ![s] = LoopExhausted(@)]
            /\ run' = [run EXCEPT ![s][k] = Returned(GotTranscript(@, t), k, "empty")]
       ELSE /\ sess' = [sess EXCEPT ![s] = AfterSTT(@, t)]
            /\ run' = [run EXCEPT ![s][k] = InvokeLLM(GotTranscript(@, t))]
    /\ UNCHANGED <<regvars, sidevars, total_requests>>
    /\ UNCHANGED <<now, created, registry, vad, nruns, fed>>

STTRaise(s, k) ==
    /\ run[s][k].pc = "stt"
    /\ sess' = [sess EXCEPT ![s] = OnError(@)]
    /\ run' = [run EXCEPT ![s][k] = Raised(@, k, "stt_raise")]
    /\ UNCHANGED <<regvars, sidevars, total_requests>>
    /\ UNCHANGED <<now, created, registry, vad, nruns, fed>>

LLMReturn(s, k) ==
    /\ run[s][k].pc = "llm"
    /\ sess' = [sess EXCEPT ![s] = AfterLLM(@)]
    /\ run' = [run EXCEPT ![s][k] = InvokeTTS(@)]
    /\ UNCHANGED <<regvars, sidevars, total_requests>>
    /\ UNCHANGED <<now, created, registry, vad, nruns, fed>>

LLMRaise(s, k) ==
    /\ run[s][k].pc = "llm"
    /\ sess' = [sess EXCEPT ![s] = OnError(@)]
    /\ run' = [run EXCEPT ![s][k] = Raised(@, k, "llm_raise")]
    /\ UNCHANGED <<regvars, sidevars, total_requests>>
    /\ UNCHANGED <<now, created, registry, vad, nruns, fed>>

TTSYield(s, k) ==
    /\ run[s][k].pc = "tts"
    /\ run[s][k].yielded < MaxChunks
    /\ sess' = [sess EXCEPT ![s] = OnChunk(@)]
    /\ run' = [run EXCEPT ![s][k] = Announce(Deliver(@, k), k, OnChunk(sess[s]))]
    /\ UNCHANGED <<regvars, sidevars, total_requests>>
    /\ UNCHANGED <<now, created, registry, vad, nruns, fed>>

ForwardChunk(s) ==
    /\ run[s]["stream"].pc = "fwd"
    /\ run' = [run EXCEPT ![s]["stream"] = Forward(@)]
    /\ UNCHANGED <<regvars, sidevars, total_requests>>
    /\ UNCHANGED <<now, created, registry, sess, vad, nruns, fed>>

TTSEnd(s, k) ==
    /\ run[s][k].pc = "tts"
    /\ sess' = [sess EXCEPT ![s] = LoopExhausted(AfterTTS(@))]
    /\ run' = [run EXCEPT ![s][k] = Returned(@, k, "ok")]
    /\ total_requests' = total_requests + 1
    /\ UNCHANGED <<regvars, sidevars>>
    /\ UNCHANGED <<now, created, registry, vad, nruns, fed>>

TTSRaise(s, k) ==
    /\ run[s][k].pc = "tts"
    /\ sess' = [sess EXCEPT ![s] = OnError(@)]
    /\ run' = [run EXCEPT ![s][k] = Raised(@, k, "tts_raise")]
    /\ UNCHANGED <<regvars, sidevars, total_requests>>
    /\ UNCHANGED <<now, created, registry, vad, nruns, fed>>

---------------------------------------------------------------------------
(* FastRTCService.process_audio_chunk, driven by the websocket handler *)

\* line 370: the detector that classifies the frames of session s
DetectorOf(s) == vad

\* bytes held in the buffers of all sessions
RECURSIVE TotalLen(_)
TotalLen(S) ==
    IF S = {} THEN 0
    ELSE LET x == CHOOSE x \in S : TRUE
         IN  Len(sess[x].audio_buffer) + TotalLen(S \ {x})

Buffered == TotalLen(Ids)

\* line 380: the utterance boundary
ShouldDispatch(v, se, t) ==
    /\ get_silence_duration_ms(v, t) >= se.config.silence_timeout_ms
    /\ se.audio_buffer # <<>>

\* a buffer that is assigned instead of extended
Accumulate_Overwrite(se, chunk) ==
    [se EXCEPT !.audio_buffer = chunk, !.state = "listening"]

\* lines 372-375
Accumulate(se, chunk) ==
    [se EXCEPT !.audio_buffer = @ \o chunk, !.state = "listening"]

\* a dispatch that leaves the audio in the buffer
BeginUtterance_BufferKept(se) == [se EXCEPT !.state = "processing"]

\* lines 382-388
BeginUtterance(se) == [se EXCEPT !.state = "processing", !.audio_buffer = <<>>]

\* the audio handed to process_audio_stream (line 387)
AudioToProcess(se) == se.audio_buffer

\* the other call of the session, marked as having run beside this one
MarkOverlap(r) == IF InFlight(r) THEN [r EXCEPT !.overlap = TRUE] ELSE r

\* a handler that starts _process_audio as a task and receives again at once
ReceiveReady_Unawaited(r) == TRUE

\* websocket_voice_stream receives the next message only when the await of
\* _process_audio for the previous frame has returned (lines 123, 170, 190)
ReceiveReady(r) == ~InFlight(r)

\* sessions that are all one shared object
Store_Shared(ss, s, se) == [x \in Ids |-> se]

\* line 360: the call works on the one object self.sessions[session_id]
Store(ss, s, se) == [ss EXCEPT ![s] = se]

\* a lookup that hands out the session object whether registered or not
Found_Always(s, reg) == TRUE

\* lines 360-361 and get_session: self.sessions.get(session_id) is not None
Found(s, reg) == s \in reg

\* One frame of a websocket client whose handler holds session s.  The step
\* runs from the call to its first suspension.
SessionNotFound(s) ==
    /\ s \in created
    /\ ~Found(s, registry)
    /\ ReceiveReady(run[s]["stream"])
    /\ run' = [run EXCEPT ![s]["stream"] = EndedRun("notfound")]
    /\ UNCHANGED <<regvars, sidevars, total_requests>>
    /\ UNCHANGED <<now, created, registry, sess, vad, nruns, fed>>

StreamFrame(s, chunk) ==
    /\ s \in created
    /\ Found(s, registry)
    /\ ReceiveReady(run[s]["stream"])
    /\ LET v2 == vad_process(vad, chunk, now)
           se == sess[s]
           o  == run[s]["http"]
           f2 == Fed(fed[s], chunk, v2.is_speaking)
       IN  /\ vad' = v2
           /\ IF v2.is_speaking
              THEN /\ Buffered + Len(chunk) <= MaxBufBytes
                   /\ sess' = Store(sess, s, Accumulate(se, chunk))
                   /\ run' = [run EXCEPT ![s]["stream"] = EndedRun("nodispatch"),
                                         ![s]["http"] = MarkOverlap(o)]
                   /\ nruns' = nruns
                   /\ fed' = [fed EXCEPT ![s] = f2]
              ELSE IF ShouldDispatch(v2, se, now)
              THEN /\ Load < MaxLoad
                   /\ nruns' = nruns + 1
                   /\ sess' = Store(sess, s, BeginUtterance(se))
                   /\ run' = [run EXCEPT
                                ![s]["stream"] =
                                    [StartRun(se, AudioToProcess(se), InFlight(o))
                                        EXCEPT !.fed = f2.pattern, !.loud = f2.loud,
                                               !.heard = f2.heard],
                                ![s]["http"] = MarkOverlap(o)]
                   /\ fed' = [fed EXCEPT ![s] = AfterDispatch]
              ELSE /\ sess' = sess
                   /\ run' = [run EXCEPT ![s]["stream"] = EndedRun("nodispatch"),
                                         ![s]["http"] = MarkOverlap(o)]
                   /\ nruns' = nruns
                   /\ fed' = [fed EXCEPT ![s] = f2]
    /\ UNCHANGED <<regvars, sidevars, total_requests>>
    /\ UNCHANGED <<now, created, registry>>

---------------------------------------------------------------------------
(* FastRTCService.process_complete_audio, driven by POST /process *)

\* line 413
BeginComplete(se) == [se EXCEPT !.state = "processing"]

\* a request naming a registered session
HttpProcess(s, payload) ==
    /\ s \in registry
    /\ ~InFlight(run[s]["http"])
    /\ Load < MaxLoad
    /\ nruns' = nruns + 1
    /\ LET o == run[s]["stream"]
       IN  /\ sess' = [sess EXCEPT ![s] = BeginComplete(@)]
           /\ run' = [run EXCEPT ![s]["http"] = StartRun(sess[s], payload, InFlight(o)),
                                 ![s]["stream"] = MarkOverlap(o)]
    /\ UNCHANGED <<regvars, sidevars, total_requests>>
    /\ UNCHANGED <<now, created, registry, vad, fed>>

\* a request naming no session, or one that is not registered: a session is
\* created for it (lines 425-431)
HttpProcessNew(id, payload) ==
    /\ id \in FreshIds
    /\ created' = created \cup {id}
    /\ registry' = registry \cup {id}
    /\ sess' = [sess EXCEPT ![id] = BeginComplete(NewSession)]
    /\ Load + 1 < MaxLoad
    /\ nruns' = nruns + 1
    /\ run' = [run EXCEPT ![id]["http"] = StartRun(NewSession, payload, FALSE)]
    /\ fed' = FedOnCreate(id)
    /\ UNCHANGED <<regvars, sidevars, total_requests>>
    /\ UNCHANGED <<now, vad>>

---------------------------------------------------------------------------

Next ==
    \/ Tick
    \/ \E id \in Ids : CreateSession(id)
    \/ \E id \in Ids : EndSession(id)
    \/ \E s \in Ids : SessionNotFound(s)
    \/ \E s \in Ids, chunk \in AudioFrames : StreamFrame(s, chunk)
    \/ \E s \in Ids, p \in HttpPayloads : HttpProcess(s, p)
    \/ \E id \in Ids, p \in HttpPayloads : HttpProcessNew(id, p)
    \/ \E s \in Ids, k \in Kinds, t \in Transcripts : STTReturn(s, k, t)
    \/ \E s \in Ids, k \in Kinds : STTRaise(s, k)
    \/ \E s \in Ids, k \in Kinds : LLMReturn(s, k)
    \/ \E s \in Ids, k \in Kinds : LLMRaise(s, k)
    \/ \E s \in Ids, k \in Kinds : TTSYield(s, k)
    \/ \E s \in Ids : ForwardChunk(s)
    \/ \E s \in Ids, k \in Kinds : TTSEnd(s, k)
    \/ \E s \in Ids, k \in Kinds : TTSRaise(s, k)

Spec == Init /\ [][Next]_vars

---------------------------------------------------------------------------
(* The registry specification: FastRTCService.sessions, the sessions'       *)
(* last_activity and the stale-session reaper, under any caller.  Of        *)
(* process_audio_chunk it follows the lookup, the activity stamp and the    *)
(* call of the detector; buffering and the pipeline are followed by Spec    *)
(* above.                                                                   *)

RegMaxTicks == 2    \* clock advances of the registry specification

\* FastRTCService.config["session_timeout_sec"]: 300 s in the source, scaled
\* to one clock advance
session_timeout_ms == TickMs

\* values config["session_timeout_sec"] has when the reaper is called (the
\* tests set it to 0)
Timeouts == {0, session_timeout_ms}

\* a staleness test that also takes a session idle for exactly the timeout
IsStale_Inclusive(la, t, timeout) == t - la >= timeout

\* line 480: (now - session.last_activity) > timeout
IsStale(la, t, timeout) == t - la > timeout

\* a reaper that goes through a list of ids taken earlier, not self.sessions
StaleSessions_Snapshot(reg, la, t, timeout) ==
    {s \in created : IsStale(la[s], t, timeout)}

\* lines 478-481: the comprehension over self.sessions.items()
StaleSessions(reg, la, t, timeout) ==
    {s \in reg : IsStale(la[s], t, timeout)}

\* an end_session that pops with a default and reports success regardless
EndResult_AlwaysTrue(id, reg) == TRUE

\* line 345: if session_id in self.sessions
EndResult(id, reg) == id \in reg

\* create_session: the session is stamped with the time of its construction
RegCreateSession(id) ==
    /\ id \in FreshIds
    /\ created' = created \cup {id}
    /\ registry' = registry \cup {id}
    /\ last_activity' = [last_activity EXCEPT ![id] = now]
    /\ call' = [NoCall EXCEPT !.op = "create", !.id = id]
    /\ UNCHANGED <<now, ended>>
    /\ UNCHANGED <<pipevars, sidevars>>

\* end_session, for any id a caller may pass
RegEndSession(id) ==
    /\ LET found == EndResult(id, registry)
       IN  /\ registry' = IF found THEN registry \ {id} ELSE registry
           /\ ended' = IF found THEN ended \cup {id} ELSE ended
           /\ call' = [NoCall EXCEPT !.op = "end", !.id = id, !.ret = found]
    /\ UNCHANGED <<now, created, last_activity>>
    /\ UNCHANGED <<pipevars, sidevars>>

\* process_audio_chunk, lines 360-370: an unknown id is ignored, a known
\* session has its last_activity set to the time of the call and its frame
\* goes through the detector
RegChunk(id, chunk) ==
    /\ last_activity' = IF Found(id, registry)
                        THEN [last_activity EXCEPT ![id] = now]
                        ELSE last_activity
    /\ vad' = IF Found(id, registry) THEN vad_process(vad, chunk, now) ELSE vad
    /\ call' = [NoCall EXCEPT !.op = "chunk", !.id = id, !.ret = Found(id, registry)]
    /\ UNCHANGED <<now, created, registry, ended>>
    /\ UNCHANGED <<sess, run, nruns, fed, total_requests, sidevars>>

RegTick ==
    /\ now < RegMaxTicks * TickMs
    /\ now' = now + TickMs
    /\ UNCHANGED <<created, registry>>
    /\ UNCHANGED regvars
    /\ UNCHANGED <<pipevars, sidevars>>

\* cleanup_stale_sessions.  The method contains no await and every caller of
\* the registry runs on the one event loop, so it is one step: it lists the
\* stale ids, calls end_session for each and returns the length of the list.
CleanupStaleSessions(timeout) ==
    /\ LET stale == StaleSessions(registry, last_activity, now, timeout)
       IN  /\ registry' = registry \ stale
           /\ ended' = ended \cup (stale \cap registry)
           /\ call' = [NoCall EXCEPT !.op = "cleanup", !.count = Cardinality(stale),
                                     !.timeout = timeout]
    /\ UNCHANGED <<now, created, last_activity>>
    /\ UNCHANGED <<pipevars, sidevars>>

\* process_complete_audio for a registered session, up to its first
\* suspension: the state is set (line 413), last_activity is not
RegCompleteBegin(id) ==
    /\ id \in registry
    /\ sess[id].state \notin {"processing", "speaking"}
    /\ sess' = [sess EXCEPT ![id] = BeginComplete(@)]
    /\ call' = [NoCall EXCEPT !.op = "complete", !.id = id]
    /\ UNCHANGED <<now, created, registry, last_activity, ended>>
    /\ UNCHANGED <<vad, run, nruns, fed, total_requests, sidevars>>

\* the call's pipeline has been drained (lines 415-423; the stages are
\* followed by Spec)
RegCompleteEnd(id) ==
    /\ sess[id].state = "processing"
    /\ sess' = [sess EXCEPT ![id] = LoopExhausted(@)]
    /\ call' = [NoCall EXCEPT !.op = "complete_end", !.id = id]
    /\ UNCHANGED <<now, created, registry, last_activity, ended>>
    /\ UNCHANGED <<vad, run, nruns, fed, total_requests, sidevars>>

\* what the application as deployed does to the registry: api/main.py starts
\* no reaper and no endpoint calls cleanup_stale_sessions
LiveNext ==
    \/ RegTick
    \/ \E id \in Ids : RegCreateSession(id)
    \/ \E id \in Ids : RegEndSession(id)
    \/ \E id \in Ids, chunk \in AudioFrames : RegChunk(id, chunk)

RegNext ==
    \/ RegTick
    \/ \E id \in Ids : RegCreateSession(id)
    \/ \E id \in Ids : RegEndSession(id)
    \/ \E id \in Ids, chunk \in AudioFrames : RegChunk(id, chunk)
    \/ \E timeout \in Timeouts : CleanupStaleSessions(timeout)
    \/ \E id \in Ids : RegCompleteBegin(id)
    \/ \E id \in Ids : RegCompleteEnd(id)

RegSpec == Init /\ [][RegNext]_vars

\* time passes whatever the clients do; no client is obliged to act
LiveSpec == Init /\ [][LiveNext]_vars /\ WF_vars(RegTick)

---------------------------------------------------------------------------
(* Properties: utterance dispatch (process_audio_chunk) *)

IsPrefix(a, b) == Len(a) <= Len(b) /\ a = SubSeq(b, 1, Len(a))

Upto(n) == [i \in 1..n |-> i]

StreamRun(s) == run[s]["stream"]

---------------------------------------------------------------------------
(* Properties: session state machine *)

SpecEdges ==
    { <<"idle", "listening">>, <<"listening", "processing">>,
      <<"processing", "speaking">>, <<"speaking", "idle">>,
      <<"error", "listening">>, <<"error", "idle">> }

AllowedEdge(a, b) == a = b \/ b = "error" \/ <<a, b>> \in SpecEdges

\* C2: the state of an existing session changes only along IDLE->LISTENING,
\* LISTENING->PROCESSING, PROCESSING->SPEAKING, SPEAKING->IDLE, any->ERROR,
\* ERROR->LISTENING and ERROR->IDLE.
C2_OnlySpecEdges ==
    [][\A s \in created : AllowedEdge(sess[s].state, sess'[s].state)]_vars

Plus(c, d) == <<c[1] + d[1], c[2] + d[2], c[3] + d[3]>>

\* the step in which call k of session s ends with the given outcomes
Ends(s, k, outcomes) ==
    /\ InFlight(run[s][k])
    /\ run'[s][k].pc = "done"
    /\ run'[s][k].outcome \in outcomes

\* C3: when a streamed utterance has run through STT, LLM and TTS and its reply
\* is drained, the session is IDLE with an empty audio buffer, and (no other
\* call of the session having run beside it) each of stt_calls, llm_calls and
\* tts_calls is exactly one more than when the utterance was dispatched.
C3_FullCycleCountsOneEach ==
    [][\A s \in Ids :
          Ends(s, "stream", {"ok"}) =>
              /\ sess'[s].state = "idle"
              /\ sess'[s].audio_buffer = <<>>
              /\ ~run[s]["stream"].overlap =>
                    Counters(sess'[s]) = Plus(run[s]["stream"].pre, <<1, 1, 1>>)]_vars

\* a first streamed utterance that completed, the only call made so far
C3_Witness ==
    \E s \in Ids :
        /\ StreamRun(s).pc = "done"
        /\ StreamRun(s).outcome = "ok"
        /\ nruns = 1
        /\ Counters(sess[s]) = <<1, 1, 1>>
        /\ sess[s].state = "idle"

\* the stages that completed before the failing one
Completed(outcome) ==
    IF outcome = "stt_raise" THEN <<0, 0, 0>>
    ELSE IF outcome = "llm_raise" THEN <<1, 0, 0>>
    ELSE <<1, 1, 0>>

StageFailures == {"stt_raise", "llm_raise", "tts_raise"}

\* C4: when a stage handler raises, the session is left in ERROR; the failing
\* stage and those after it increment no counter: the counters are those at
\* the start of the call plus one for each stage that completed before.
C4_FailureSetsErrorAndCountsNothing ==
    [][\A s \in Ids, k \in Kinds :
          Ends(s, k, StageFailures) =>
              /\ sess'[s].state = "error"
              /\ Counters(sess'[s]) = Counters(sess[s])
              /\ ~run[s][k].overlap =>
                    Counters(sess'[s]) =
                        Plus(run[s][k].pre, Completed(run'[s][k].outcome))]_vars

\* a first utterance whose TTS handler raised after STT and LLM completed
C4_Witness ==
    \E s \in Ids :
        /\ StreamRun(s).pc = "done"
        /\ StreamRun(s).outcome = "tts_raise"
        /\ nruns = 1
        /\ sess[s].state = "error"
        /\ Counters(sess[s]) = <<1, 1, 0>>

---------------------------------------------------------------------------
(* Properties: what the client of an utterance receives *)

\* C5: for every utterance dispatched to the pipeline the websocket client
\* receives exactly one reply: synthesized audio and no error, or one error and
\* no audio; never both and never neither.
C5_ExactlyOneReply ==
    \A s \in Ids :
        StreamRun(s).pc = "done" =>
            \/ StreamRun(s).sent # <<>> /\ StreamRun(s).errs = 0
            \/ StreamRun(s).sent = <<>> /\ StreamRun(s).errs = 1

\* C6: when the LLM handler raises, the session ends in ERROR, exactly one
\* error and no audio is surfaced to the client for that utterance, and the
\* failure removes no session from the registry.
C6_LLMFailureSurfacesOneError ==
    [][\A s \in Ids, k \in Kinds :
          Ends(s, k, {"llm_raise"}) =>
              /\ sess'[s].state = "error"
              /\ run'[s][k].errs = 1
              /\ run'[s][k].sent = <<>>
              /\ registry' = registry]_vars

\* an utterance failed in the LLM stage and its session is still registered
C6_Witness ==
    \E s \in registry :
        /\ StreamRun(s).pc = "done"
        /\ StreamRun(s).outcome = "llm_raise"
        /\ StreamRun(s).errs = 1
        /\ sess[s].state = "error"

WhitespaceOnly(t) == \A i \in 1..Len(t) : t[i] = " "

HandlersInvoked(r) == { r.calls[i] : i \in 1..Len(r.calls) }

\* C7: when the STT handler returns an empty or whitespace-only transcript the
\* pipeline ends at once: no chunk is yielded, neither the LLM nor the TTS
\* handler is invoked, and the session's transcript and counters are unchanged.
C7_BlankTranscriptShortCircuits ==
    [][\A s \in Ids, k \in Kinds :
          (/\ run[s][k].pc = "stt"
           /\ run'[s][k].returned # NotReturned
           /\ WhitespaceOnly(run'[s][k].returned)) =>
              /\ run'[s][k].pc = "done"
              /\ run'[s][k].sent = <<>>
              /\ run'[s][k].errs = 0
              /\ HandlersInvoked(run'[s][k]) \cap {"llm", "tts"} = {}
              /\ sess'[s].transcript_buffer = sess[s].transcript_buffer
              /\ Counters(sess'[s]) = Counters(sess[s])]_vars

\* a call that was given a whitespace-only transcript after an earlier one
\* had stored a transcript
C7_Witness ==
    \E s \in Ids, k \in Kinds :
        /\ run[s][k].pc = "done"
        /\ run[s][k].returned = <<" ">>
        /\ sess[s].transcript_buffer = <<"a">>

\* the order of handler invocations and returns of one call
StageOrder == <<"stt", "stt_ret", "llm", "llm_ret", "tts">>

C9_ChunksStreamInOrder ==
    \A s \in Ids :
        /\ InFlight(StreamRun(s)) => StreamRun(s).got = Upto(StreamRun(s).yielded)
        /\ StreamRun(s).pc = "tts" => StreamRun(s).sent = StreamRun(s).got
        /\ StreamRun(s).pc = "fwd" =>
              StreamRun(s).sent = Upto(StreamRun(s).yielded - 1)
        /\ StreamRun(s).pc = "done" =>
              StreamRun(s).sent = Upto(Len(StreamRun(s).sent))

\* two chunks were yielded and both have been sent on
C9_Witness ==
    \E s \in Ids :
        /\ StreamRun(s).pc = "tts"
        /\ StreamRun(s).yielded = 2
        /\ StreamRun(s).sent = <<1, 2>>

---------------------------------------------------------------------------
(* Properties: registry capacity *)

\* C10: create_session refuses to add a session once the registry holds
\* max_sessions sessions: the registry never exceeds that size.
C10_RegistryWithinMaxSessions == Cardinality(registry) <= max_sessions

---------------------------------------------------------------------------
(* Properties of the registry: RegSpec and LiveSpec *)

\* the step is a call of the given operation (a call that changes nothing and
\* repeats the previous call is a stuttering step)
Called(op) ==
    /\ call'.op = op
    /\ call' # call \/ registry' # registry \/ last_activity' # last_activity

C14_EndSessionTrueAtMostOnce ==
    [][Called("end") =>
          /\ call'.ret = (call'.id \in registry)
          /\ call'.ret => registry' = registry \ {call'.id}
          /\ ~call'.ret => registry' = registry
          /\ call'.id \in ended => ~call'.ret
          /\ call'.id \notin created => ~call'.ret]_vars

\* a second end_session for an id returned False
C14_Witness ==
    /\ call.op = "end"
    /\ call.id \in ended
    /\ ~call.ret

\* C15: cleanup_stale_sessions removes exactly the sessions idle for more than
\* the timeout, leaves the others untouched and returns how many it removed;
\* with a zero timeout it removes every session last active in the past.
C15_CleanupRemovesExactlyTheStale ==
    [][Called("cleanup") =>
          LET idle == {s \in registry : now - last_activity[s] > call'.timeout}
          IN  /\ registry' = registry \ idle
              /\ call'.count = Cardinality(idle)
              /\ last_activity' = last_activity
              /\ call'.timeout = 0 =>
                    \A s \in registry : last_activity[s] < now => s \notin registry']_vars

\* a cleanup with a non-zero timeout removed one session and kept another
C15_Witness ==
    /\ call.op = "cleanup"
    /\ call.timeout > 0
    /\ call.count = 1
    /\ registry # {}

\* C16: run between the calls of other tasks, cleanup_stale_sessions returns
\* the number of sessions it removed itself: a session another task ended
\* before is not counted, and every session it removes was live when it ran.
C16_CleanupCountsItsOwnRemovals ==
    [][Called("cleanup") =>
          /\ call'.count = Cardinality(registry \ registry')
          /\ (registry \ registry') \cap ended = {}
          /\ ended' = ended \cup (registry \ registry')
          /\ registry' \subseteq registry]_vars

\* a cleanup removed one session after another task had ended another one
C16_Witness ==
    /\ call.op = "cleanup"
    /\ call.count = 1
    /\ Cardinality(ended) = 2

Overdue(s) == s \in registry /\ now - last_activity[s] > session_timeout_ms

\* C18: a session idle for longer than the session timeout does not stay so:
\* unless a frame arrives for it, it is eventually removed from the registry,
\* whether or not anybody calls end_session.
C18_IdleSessionEventuallyReclaimed ==
    \A s \in Ids : Overdue(s) ~> ~Overdue(s)

---------------------------------------------------------------------------
(* Properties of Spec: detector, buffer and session lifetime *)

\* C12: the detector state is per session: a frame processed for one session
\* never changes the energy history, is_speaking flag or silence_start that
\* classify the frames of another session.
C12_DetectorStateIsPerSession ==
    [][\A s \in registry :
          (\E x \in Ids \ {s} : sess'[x] # sess[x]) =>
              DetectorOf(s)' = DetectorOf(s)]_vars

\* C13: a session's audio_buffer never holds more than max_audio_duration_ms
\* of audio: a frame that would exceed the bound forces an early dispatch.
C13_BufferWithinMaxAudioDuration ==
    \A s \in Ids : Len(sess[s].audio_buffer) <= max_audio_bytes

\* C17: once end_session has removed a session, the result of a call still in
\* flight for it is discarded: no field of the session changes any more and
\* no further reply chunk is sent to its client.
C17_NothingAppliedAfterRemoval ==
    [][\A s \in created \ registry :
          /\ sess'[s] = sess[s]
          /\ Len(run'[s]["stream"].sent) <= Len(run[s]["stream"].sent)]_vars

\* C19: a session does not stay in ERROR past the next frame processed for it:
\* after that frame it is LISTENING or IDLE.  (A frame that dispatches nothing
\* clears the record of the session's last streamed call, so a registered
\* session with no call on record has had a frame processed since.)
C19_ErrorLeftOnNextFrame ==
    \A s \in registry :
        (run[s]["stream"].pc = "none" /\ run[s]["http"].pc = "none")
            => sess[s].state \in {"idle", "listening"}

\* C20: while a session has sent no frame of energy above the threshold, its
\* audio_buffer is empty and nothing is dispatched for it, whatever the other
\* sessions of the service do.
C20_QuietSessionBuffersNothing ==
    \A s \in Ids :
        /\ fed[s].pattern \in {"start", "quiet"} => sess[s].audio_buffer = <<>>
        /\ run[s]["stream"].pc = "stt" => run[s]["stream"].fed # "quiet"

---------------------------------------------------------------------------
(* Properties of Spec: frames of one connection, sessions side by side *)

\* C21: the frames of one session are handled one at a time, in the order
\* they arrive: while the handling of a frame is still under way (its pipeline
\* call is suspended at a stage or its reply is being streamed), no further
\* frame of that session is taken up: the session's buffer is left alone, and
\* the call in flight is neither dropped nor replaced by a new one.
C21_FramesHandledOneAtATime ==
    [][\A s \in Ids :
          InFlight(run[s]["stream"]) =>
              /\ sess'[s].audio_buffer = sess[s].audio_buffer
              /\ run'[s]["stream"].pc # "none"
              /\ run'[s]["stream"].pc = "stt" => run[s]["stream"].pc = "stt"]_vars

\* the handling of one frame has come as far as streaming its second chunk
C21_Witness ==
    \E s \in Ids :
        /\ run[s]["stream"].pc = "fwd"
        /\ Len(run[s]["stream"].sent) >= 1

\* C22: sessions do not block or disturb each other: while a call of one
\* session is suspended at a stage, frames of another session are handled,
\* and no step taken for another session changes the first session's
\* audio_buffer, state, transcript or metrics.
C22_OtherSessionsLeaveSessionAlone ==
    [][\A s \in Ids : \A x \in Ids \ {s} :
          /\ InFlight(run[s]["stream"]) \/ InFlight(run[s]["http"])
          /\ sess'[x] # sess[x] \/ run'[x] # run[x] \/ fed'[x] # fed[x]
          => sess'[s] = sess[s]]_vars

\* while one session awaits its LLM handler, frames of another session have
\* been classified as speech and buffered
C22_Witness ==
    \E s \in Ids : \E x \in Ids \ {s} :
        /\ run[s]["stream"].pc = "llm"
        /\ vad.is_speaking
        /\ sess[x].state = "listening"
        /\ sess[x].audio_buffer # <<>>

---------------------------------------------------------------------------
(* The detector specification: one VoiceActivityDetector, called with any  *)
(* byte strings while time passes.                                         *)

VadMaxTicks == 2    \* clock advances of the detector specification

\* byte strings a caller passes: empty, one byte, even and odd lengths, a
\* sample of energy equal to the threshold
VadChunks == { <<>>, <<10>>, <<0, 0>>, <<3, 3>>, <<10, 10>>, <<10, 10, 10>> }

\* the mean the call returns, as numerator and denominator
Average(history) == <<SeqSum(history), Len(history)>>

\* detector.process(chunk)
VadProcess(chunk) ==
    /\ vad' = vad_process(vad, chunk, now)
    /\ probe' = [called |-> TRUE, chunk |-> chunk, at |-> now,
                 energy |-> calculate_energy(chunk),
                 is_speech |-> vad'.is_speaking,
                 avg |-> Average(vad'.energy_history),
                 spoke |-> probe.spoke \/ vad'.is_speaking]
    /\ UNCHANGED <<now, created, registry, sess, run, nruns, fed>>
    /\ UNCHANGED <<regvars, conn, cache, lock, thread, stats, total_requests>>

VadTick ==
    /\ now < VadMaxTicks * TickMs
    /\ now' = now + TickMs
    /\ UNCHANGED <<created, registry, sess, vad, run, nruns, fed>>
    /\ UNCHANGED <<regvars, sidevars, total_requests>>

VadNext ==
    \/ VadTick
    \/ \E chunk \in VadChunks : VadProcess(chunk)

VadSpec == Init /\ [][VadNext]_vars

---------------------------------------------------------------------------
(* Properties of VadSpec *)

\* detector.get_silence_duration_ms() at the current time
SilenceMs == get_silence_duration_ms(vad, now)

\* C23: with a clock that does not go back, the silence duration of a
\* detector is 0 while it is speaking and while it has never gone from
\* speaking to silence; from one frame classified as silence to the next it
\* never decreases; a frame classified as speech resets it to 0.
C23_SilenceDurationMonotone ==
    [][/\ vad'.is_speaking => SilenceMs' = 0
       /\ ~probe'.spoke => SilenceMs' = 0
       /\ (~vad.is_speaking /\ ~vad'.is_speaking) => SilenceMs' >= SilenceMs]_vars

\* a frame was classified as silence after the silence had begun, and time
\* has passed since the silence began
C23_Witness ==
    /\ ~vad.is_speaking
    /\ vad.silence_start # None
    /\ probe.at > vad.silence_start
    /\ SilenceMs >= 2 * TickMs

\* C24: process never fails, whatever the byte string: a chunk of fewer than
\* two bytes (the empty one included) and a chunk of odd length put the energy
\* 0.0 into the smoothing window, and the call returns its pair (is_speech,
\* mean energy of the window) as for any other chunk.
C24_ShortAndOddChunksAreSilent ==
    probe.called =>
        /\ (Len(probe.chunk) < 2 \/ Len(probe.chunk) % 2 = 1) =>
               /\ probe.energy = 0
               /\ vad.energy_history[Len(vad.energy_history)] = 0
        /\ Len(vad.energy_history) \in 1..smoothing_frames
        /\ probe.is_speech = vad.is_speaking
        /\ probe.avg = Average(vad.energy_history)

\* a loud chunk of odd length was processed while the window still held speech
C24_Witness ==
    /\ probe.called
    /\ probe.chunk = <<10, 10, 10>>
    /\ probe.is_speech

---------------------------------------------------------------------------
(* The connection specification: one run of websocket_voice_stream, from    *)
(* the entry of its receive loop to the end of its finally block, one       *)
(* received message per step.  Of what _process_audio does with a frame,    *)
(* the call of the service's detector is followed here; buffering and the   *)
(* pipeline are followed by Spec, and here the call returns having sent an  *)
(* error message or not.                                                    *)

\* values a config message carries for vad_threshold
ConfigValues == {3, 5}

\* what the handler leaves behind for a message: the message's kind, the
\* error messages sent in answer, the type of the other message sent
Answered(c, msg, errors, reply) ==
    [c EXCEPT !.msg = msg, !.errors = errors, !.reply = reply]

\* {"type": "start_session"}: lines 131-141.  The new session replaces the
\* handler's local; a session it held before is not ended.
ConnStartSession(id) ==
    /\ conn.open
    /\ id \in FreshIds
    /\ created' = created \cup {id}
    /\ registry' = registry \cup {id}
    /\ sess' = [sess EXCEPT ![id] = NewSession]
    /\ conn' = [Answered(conn, "start_session", 0, "session_started")
                   EXCEPT !.session = id, !.started = @ \cup {id}]
    /\ UNCHANGED <<now, vad, run, nruns, fed, probe, cache, lock, thread, stats, total_requests>>
    /\ UNCHANGED regvars

\* {"type": "end_session"}: lines 143-152
ConnEndSession ==
    /\ conn.open
    /\ IF conn.session # None
       THEN /\ registry' = registry \ {conn.session}
            /\ conn' = [Answered(conn, "end_session", 0, "session_ended")
                           EXCEPT !.session = None]
       ELSE /\ registry' = registry
            /\ conn' = Answered(conn, "end_session", 0, "none")
    /\ UNCHANGED <<now, created, sess, vad, run, nruns, fed, probe, cache, lock, thread, stats, total_requests>>
    /\ UNCHANGED regvars

\* {"type": "config", "vad_threshold": v}: lines 154-164
ConnConfig(v) ==
    /\ conn.open
    /\ IF conn.session # None
       THEN /\ sess' = [sess EXCEPT ![conn.session].config.vad_threshold = v]
            /\ conn' = Answered(conn, "config", 0, "config_updated")
       ELSE /\ sess' = sess
            /\ conn' = Answered(conn, "config", 0, "none")
    /\ UNCHANGED <<now, created, registry, vad, run, nruns, fed, probe, cache, lock, thread, stats, total_requests>>
    /\ UNCHANGED regvars

\* process_audio_chunk, line 370: the frame goes through self.vad
Classified(chunk) ==
    /\ vad' = vad_process(vad, chunk, now)
    /\ probe' = [called |-> TRUE, chunk |-> chunk, at |-> now,
                 energy |-> calculate_energy(chunk),
                 is_speech |-> vad'.is_speaking,
                 avg |-> Average(vad'.energy_history),
                 spoke |-> probe.spoke \/ vad'.is_speaking]

\* {"type": "audio_base64"} with or without a "data" member: lines 166-175.
\* failed: _process_audio caught an exception and sent its error message.
ConnAudioBase64(has_data, chunk, failed) ==
    /\ conn.open
    /\ IF conn.session # None /\ has_data
       THEN /\ conn' = Answered(conn, "audio_base64", IF failed THEN 1 ELSE 0, "audio")
            /\ Classified(chunk)
       ELSE /\ ~failed
            /\ conn' = Answered(conn, "audio_base64", 0, "none")
            /\ UNCHANGED <<vad, probe>>
    /\ UNCHANGED <<now, created, registry>>
    /\ UNCHANGED <<sess, run, nruns, fed, total_requests>>
    /\ UNCHANGED <<regvars, cache, lock, thread, stats>>

\* {"type": "ping"}: lines 177-178
ConnPing ==
    /\ conn.open
    /\ conn' = Answered(conn, "ping", 0, "pong")
    /\ UNCHANGED <<now, created, registry>>
    /\ UNCHANGED <<pipevars, regvars, probe, cache, lock, thread, stats, total_requests>>

\* a JSON object whose type is none of the five: no branch of lines 131-178
\* is taken, nothing is sent
ConnUnknownType ==
    /\ conn.open
    /\ conn' = Answered(conn, "unknown", 0, "none")
    /\ UNCHANGED <<now, created, registry>>
    /\ UNCHANGED <<pipevars, regvars, probe, cache, lock, thread, stats, total_requests>>

\* a text that json.loads rejects: lines 180-184
ConnInvalidJson ==
    /\ conn.open
    /\ conn' = Answered(conn, "invalid_json", 1, "none")
    /\ UNCHANGED <<now, created, registry>>
    /\ UNCHANGED <<pipevars, regvars, probe, cache, lock, thread, stats, total_requests>>

\* lines 205-209: the finally block ends the session the local holds
Finally(c, msg) ==
    /\ registry' = IF c.session # None THEN registry \ {c.session} ELSE registry
    /\ conn' = [Answered(c, msg, 0, "none") EXCEPT !.open = FALSE]

\* a JSON text that is no object (a list, a number): data.get raises
\* AttributeError at line 129, which only the outer except clause catches
\* (line 203), and the handler ends
ConnNotAnObject ==
    /\ conn.open
    /\ Finally(conn, "not_an_object")
    /\ UNCHANGED <<now, created>>
    /\ UNCHANGED <<pipevars, regvars, probe, cache, lock, thread, stats, total_requests>>

\* a binary frame: lines 186-199
ConnBinary(chunk, failed) ==
    /\ conn.open
    /\ IF conn.session # None
       THEN /\ conn' = Answered(conn, "binary", IF failed THEN 1 ELSE 0, "audio")
            /\ Classified(chunk)
       ELSE /\ ~failed
            /\ conn' = Answered(conn, "binary", 1, "none")
            /\ UNCHANGED <<vad, probe>>
    /\ UNCHANGED <<now, created, registry>>
    /\ UNCHANGED <<sess, run, nruns, fed, total_requests>>
    /\ UNCHANGED <<regvars, cache, lock, thread, stats>>

\* the client goes away: receive raises WebSocketDisconnect (line 201)
ConnDisconnect ==
    /\ conn.open
    /\ Finally(conn, "disconnect")
    /\ UNCHANGED <<now, created>>
    /\ UNCHANGED <<pipevars, regvars, probe, cache, lock, thread, stats, total_requests>>

ConnNext ==
    \/ \E id \in Ids : ConnStartSession(id)
    \/ ConnEndSession
    \/ \E v \in ConfigValues : ConnConfig(v)
    \/ \E has_data \in BOOLEAN, chunk \in AudioFrames, failed \in BOOLEAN :
            ConnAudioBase64(has_data, chunk, failed)
    \/ ConnPing
    \/ ConnUnknownType
    \/ ConnInvalidJson
    \/ ConnNotAnObject
    \/ \E chunk \in AudioFrames, failed \in BOOLEAN : ConnBinary(chunk, failed)
    \/ ConnDisconnect

ConnSpec == Init /\ [][ConnNext]_vars

---------------------------------------------------------------------------
(* Properties of ConnSpec *)

\* C26: a control message that cannot be parsed, or whose type is unknown, is
\* answered with exactly one error message; the connection stays open and
\* the session it holds is unchanged.
C26_BadControlMessageGetsOneError ==
    [][conn'.msg \in {"invalid_json", "unknown"} =>
          /\ conn'.errors = 1
          /\ conn'.open
          /\ conn'.session = conn.session
          /\ registry' = registry]_vars

\* C27: audio that arrives while the connection holds no session (a binary
\* frame or an audio_base64 message) is answered with an error message,
\* creates no session and leaves the connection open.
C27_AudioWithoutSessionGetsError ==
    [][(conn.session = None /\ conn'.msg \in {"binary", "audio_base64"}) =>
          /\ conn'.errors = 1
          /\ conn'.open
          /\ created' = created
          /\ registry' = registry]_vars

\* C28: once the handler of a closed connection has finished, no session
\* started over that connection is left in the registry.
C28_ClosedConnectionLeavesNoSession ==
    ~conn.open => conn.started \cap registry = {}

---------------------------------------------------------------------------
(* Properties of Spec: latency metrics, the non-streaming response *)

\* lines 233-236: avg_latency_ms is total_latency_ms divided by this
LatencyDivisor(se) == se.stt_calls

\* The utterances of the session that came through all three stages: line 226
\* counts one when the TTS stream is drained, and total_latency_ms takes the
\* utterance's duration right after it (lines 229-233).
Successes(se) == se.tts_calls

\* line 446: the "transcript" member of the response of POST /process
ResponseTranscript(se) == se.transcript_buffer

\* C25: after every utterance that completes, avg_latency_ms is
\* total_latency_ms divided by the number of utterances of the session that
\* completed successfully, also when earlier utterances of the session failed
\* at the LLM or TTS stage (no other call of the session running beside it).
C25_AverageOverSuccessfulUtterances ==
    [][\A s \in Ids : \A k \in Kinds :
          (Ends(s, k, {"ok"}) /\ ~run[s][k].overlap) =>
              LatencyDivisor(sess'[s]) = Successes(sess'[s])]_vars

\* C29: the response of the non-streaming endpoint carries the transcript of
\* the payload of that request: the text the STT handler returned for it, and
\* for a blank transcript no text of an earlier utterance of the session.
C29_ResponseCarriesThisRequestsTranscript ==
    [][\A s \in Ids :
          (Ends(s, "http", {"ok", "empty"}) /\ ~run[s]["http"].overlap) =>
              LET t == run'[s]["http"].returned
              IN  IF IsBlank(t)
                  THEN IsBlank(ResponseTranscript(sess'[s]))
                  ELSE ResponseTranscript(sess'[s]) = t]_vars

---------------------------------------------------------------------------
(* The cache specification: one ResponseCache called from several threads. *)
(* A thread moves on its own between the statements of a method.           *)

NKeys == 3            \* distinct cache keys
CacheMaxTicks == 1    \* clock advances of the cache specification
MaxGets == 2          \* get calls of one behaviour

\* responses a set call can bring
CacheValues == {1, 2}

CacheKeys == 1..NKeys

\* ResponseCache(max_size=2), as test_lru_eviction_order builds it
cache_max_size == 2

\* self.ttl, scaled to one clock advance
cache_ttl_ms == TickMs

\* a lock that any thread passes at any time
LockFree_Ignored(l) == TRUE

\* threading.Lock: acquire returns when no thread holds the lock
LockFree(l) == l = 0

\* position of the entry of key k, 0 if there is none
IndexOf(c, k) ==
    IF \E i \in 1..Len(c) : c[i].key = k
    THEN CHOOSE i \in 1..Len(c) : c[i].key = k
    ELSE 0

\* c without its i-th entry
Without(c, i) == [j \in 1..(Len(c) - 1) |-> IF j < i THEN c[j] ELSE c[j + 1]]

\* _evict_oldest_unsafe: min over the keys by timestamp takes the first of the
\* oldest entries in the dict's order; an empty dict is left as it is
EvictOldest(c) ==
    IF c = <<>> THEN c
    ELSE LET i == CHOOSE i \in 1..Len(c) :
                      /\ \A j \in 1..Len(c) : c[i].ts <= c[j].ts
                      /\ \A j \in 1..(i - 1) : c[j].ts > c[i].ts
         IN  Without(c, i)

\* self.cache[key] = {...}: a key already present keeps its place
Put(c, k, v, t) ==
    LET i == IndexOf(c, k)
    IN  IF i = 0 THEN Append(c, [key |-> k, ts |-> t, val |-> v])
        ELSE [c EXCEPT ![i].ts = t, ![i].val = v]

\* an expiry test that still serves an entry whose age equals the TTL
Fresh_Inclusive(age) == age <= cache_ttl_ms

\* line 86: datetime.now() - entry['timestamp'] < self.ttl
Fresh(age) == age < cache_ttl_ms

\* get calls made and not yet returned
GetsPending == Cardinality({t \in Threads : thread[t].pc \in {"get_wait", "get_body"}})

\* set(query, ...): the key is computed, the thread reaches `with self._lock`
CacheSetCall(t, k, v) ==
    /\ thread[t].pc = "idle"
    /\ thread' = [thread EXCEPT ![t] = [pc |-> "set_wait", key |-> k, val |-> v,
                                        evicted |-> 0]]
    /\ UNCHANGED <<now, created, registry, cache, lock, probe, conn, stats>>
    /\ UNCHANGED <<pipevars, regvars>>

CacheGetCall(t, k) ==
    /\ thread[t].pc = "idle"
    /\ stats.gets + GetsPending < MaxGets
    /\ thread' = [thread EXCEPT ![t] = [pc |-> "get_wait", key |-> k, val |-> 0,
                                        evicted |-> 0]]
    /\ UNCHANGED <<now, created, registry, cache, lock, probe, conn, stats>>
    /\ UNCHANGED <<pipevars, regvars>>

CacheClearCall(t) ==
    /\ thread[t].pc = "idle"
    /\ thread' = [thread EXCEPT ![t] = [pc |-> "clear_wait", key |-> 0, val |-> 0,
                                        evicted |-> 0]]
    /\ UNCHANGED <<now, created, registry, cache, lock, probe, conn, stats>>
    /\ UNCHANGED <<pipevars, regvars>>

\* with self._lock: (lines 81, 111, 145)
CacheAcquire(t) ==
    /\ thread[t].pc \in {"set_wait", "get_wait", "clear_wait"}
    /\ LockFree(lock)
    /\ lock' = t
    /\ thread' = [thread EXCEPT ![t].pc =
                     IF @ = "set_wait" THEN "set_loop"
                     ELSE IF @ = "get_wait" THEN "get_body" ELSE "clear_body"]
    /\ UNCHANGED <<now, created, registry, cache, probe, conn, stats>>
    /\ UNCHANGED <<pipevars, regvars>>

\* lines 113-114: one test of the while loop, and its body
CacheSetLoop(t) ==
    /\ thread[t].pc = "set_loop"
    /\ IF Len(cache) >= cache_max_size
       THEN /\ cache' = EvictOldest(cache)
            /\ thread' = [thread EXCEPT ![t].evicted = @ + 1]
       ELSE /\ cache' = cache
            /\ thread' = [thread EXCEPT ![t].pc = "set_store"]
    /\ UNCHANGED <<now, created, registry, lock, probe, conn, stats>>
    /\ UNCHANGED <<pipevars, regvars>>

\* lines 116-124: the entry is stored and the lock released
CacheSetStore(t) ==
    /\ thread[t].pc = "set_store"
    /\ cache' = Put(cache, thread[t].key, thread[t].val, now)
    /\ lock' = 0
    /\ thread' = [thread EXCEPT ![t] = Outside]
    /\ UNCHANGED <<now, created, registry, probe, conn, stats>>
    /\ UNCHANGED <<pipevars, regvars>>

\* lines 82-98: a live entry is returned and counted as a hit; an expired one
\* is deleted and, like a missing one, counted as a miss with None returned
CacheGetBody(t) ==
    /\ thread[t].pc = "get_body"
    /\ LET k == thread[t].key
           i == IndexOf(cache, k)
           age == IF i = 0 THEN None ELSE now - cache[i].ts
       IN  IF i # 0 /\ Fresh(age)
           THEN /\ cache' = cache
                /\ stats' = [stats EXCEPT !.hits = @ + 1, !.gets = @ + 1,
                                          !.hit = TRUE, !.key = k,
                                          !.val = cache[i].val, !.age = age]
           ELSE /\ cache' = IF i # 0 THEN Without(cache, i) ELSE cache
                /\ stats' = [stats EXCEPT !.misses = @ + 1, !.gets = @ + 1,
                                          !.hit = FALSE, !.key = k,
                                          !.val = None, !.age = age]
    /\ lock' = 0
    /\ thread' = [thread EXCEPT ![t] = Outside]
    /\ UNCHANGED <<now, created, registry, probe, conn>>
    /\ UNCHANGED <<pipevars, regvars>>

\* lines 145-146
CacheClearBody(t) ==
    /\ thread[t].pc = "clear_body"
    /\ cache' = <<>>
    /\ lock' = 0
    /\ thread' = [thread EXCEPT ![t] = Outside]
    /\ UNCHANGED <<now, created, registry, probe, conn, stats>>
    /\ UNCHANGED <<pipevars, regvars>>

\* datetime.now() advances
CacheTick ==
    /\ now < CacheMaxTicks * TickMs
    /\ now' = now + TickMs
    /\ UNCHANGED <<created, registry>>
    /\ UNCHANGED <<pipevars, regvars, sidevars>>

CacheNext ==
    \/ CacheTick
    \/ \E t \in Threads, k \in CacheKeys, v \in CacheValues : CacheSetCall(t, k, v)
    \/ \E t \in Threads, k \in CacheKeys : CacheGetCall(t, k)
    \/ \E t \in Threads : CacheClearCall(t)
    \/ \E t \in Threads : CacheAcquire(t)
    \/ \E t \in Threads : CacheSetLoop(t)
    \/ \E t \in Threads : CacheSetStore(t)
    \/ \E t \in Threads : CacheGetBody(t)
    \/ \E t \in Threads : CacheClearBody(t)

CacheSpec == Init /\ [][CacheNext]_vars

---------------------------------------------------------------------------
(* Properties of CacheSpec *)

\* C30: the cache never holds more than max_size entries, whatever set, get
\* and clear calls are made and however the calls of several threads
\* interleave.
C30_CacheWithinMaxSize == Len(cache) <= cache_max_size

\* a set call has evicted an entry of the full cache and is about to store,
\* while the set call of another thread waits for the lock
C30_Witness ==
    \E t \in Threads : \E u \in Threads \ {t} :
        /\ thread[t].pc = "set_store"
        /\ thread[t].evicted = 1
        /\ thread[u].pc = "set_wait"
        /\ thread[u].key # thread[t].key

\* C31: a set call evicts oldest-first and only when needed: it removes an
\* entry only if storing its value would otherwise take the cache over
\* max_size (the cache is full and the key is not in it), the entry removed is
\* then one of oldest set time, and every other entry stays.
C31_EvictsOldestOnlyWhenNeeded ==
    [][\A t \in Threads :
          (lock = t /\ thread[t].pc = "set_loop" /\ cache' # cache) =>
              /\ IndexOf(cache, thread[t].key) = 0
              /\ Len(cache) = cache_max_size
              /\ \E i \in 1..Len(cache) :
                    /\ cache' = Without(cache, i)
                    /\ \A j \in 1..Len(cache) : cache[i].ts <= cache[j].ts]_vars

\* C32: get never returns an entry whose age has reached the TTL: such a
\* lookup removes the entry, counts as a miss and returns None (as the lookup
\* of a missing key does); the lookup of an unexpired entry returns the value
\* last set for the key and counts as a hit; hits plus misses is the number of
\* get calls that have returned.
C32_GetServesOnlyUnexpired ==
    [][\A t \in Threads :
          (lock = t /\ stats'.gets # stats.gets) =>
              LET k == thread[t].key
                  i == IndexOf(cache, k)
              IN  /\ stats'.hits + stats'.misses = stats'.gets
                  /\ stats'.gets = stats.gets + 1
                  /\ IF i # 0 /\ now - cache[i].ts < cache_ttl_ms
                     THEN /\ stats'.hit
                          /\ stats'.val = cache[i].val
                          /\ stats'.hits = stats.hits + 1
                          /\ cache' = cache
                     ELSE /\ ~stats'.hit
                          /\ stats'.val = None
                          /\ stats'.misses = stats.misses + 1
                          /\ IndexOf(cache', k) = 0]_vars

\* after a hit, a get found an entry whose age was exactly the TTL and missed
C32_Witness ==
    /\ stats.hits = 1
    /\ stats.misses = 1
    /\ ~stats.hit
    /\ stats.age = cache_ttl_ms

---------------------------------------------------------------------------
(* Properties of VadSpec: the smoothing window *)

\* C34: the smoothing window never holds more than smoothing_frames energies:
\* a new energy is pushed at the end and, the window being full, the oldest is
\* dropped; the frame is classified as speech exactly when the arithmetic mean
\* of the window, the new energy included, is strictly above the threshold.
C34_WindowBoundedMeanAboveThreshold ==
    [][(probe'.called /\ <<vad, probe>>' # <<vad, probe>>) =>
          LET h == vad.energy_history
              h2 == vad'.energy_history
          IN  /\ Len(h2) <= smoothing_frames
              /\ h2 = (IF Len(h) = smoothing_frames THEN Tail(h) ELSE h)
                          \o <<probe'.energy>>
              /\ probe'.is_speech <=> (SeqSum(h2) > threshold * Len(h2))
              /\ vad'.is_speaking = probe'.is_speech]_vars

\* a frame came into a full window whose mean is exactly the threshold, after
\* louder frames had left it, and was not classified as speech
C34_Witness ==
    /\ probe.called
    /\ probe.spoke
    /\ Len(vad.energy_history) = smoothing_frames
    /\ SeqSum(vad.energy_history) = threshold * smoothing_frames
    /\ ~probe.is_speech

---------------------------------------------------------------------------
(* Properties of ConnSpec: the session's configured threshold *)

\* C36: the vad_threshold a config message has set for the session decides
\* the classification of the session's later frames: a frame is classified as
\* speech exactly when its smoothed energy exceeds the session's threshold.
C36_SessionThresholdClassifies ==
    (conn.open /\ conn.session # None /\ conn.reply = "audio") =>
        (probe.is_speech <=>
            probe.avg[1] > sess[conn.session].config.vad_threshold * probe.avg[2])

---------------------------------------------------------------------------
(* Properties of RegSpec: the reaper and calls in flight *)

\* C40: cleanup_stale_sessions never removes a session whose pipeline is in
\* flight (state PROCESSING or SPEAKING), also when the session is driven only
\* through process_complete_audio, which does not set last_activity.
C40_CleanupSparesSessionsInFlight ==
    [][Called("cleanup") =>
          \A s \in registry :
              sess[s].state \in {"processing", "speaking"} => s \in registry']_vars

\* C37: process_audio_chunk for a session id that is not in the registry
\* yields nothing and changes nothing: no session is created, no session's
\* buffer, state, metrics or last_activity changes, and the detector is left
\* as it was.
C37_UnknownSessionChangesNothing ==
    [][(Called("chunk") /\ call'.id \notin registry) =>
          /\ ~call'.ret
          /\ UNCHANGED <<created, registry, sess, vad, last_activity, ended>>]_vars

\* a frame arrived for a session already ended, while frames of a live
\* session had the detector speaking
C37_Witness ==
    /\ call.op = "chunk"
    /\ ~call.ret
    /\ call.id \in ended
    /\ registry # {}
    /\ vad.is_speaking

\* the step in which process_audio_chunk hands an utterance of s to the
\* pipeline
Dispatches(s) ==
    /\ ~InFlight(run[s]["stream"])
    /\ run'[s]["stream"].pc = "stt"

\* C33: process_audio_chunk invokes the pipeline only when the frame is
\* classified as silence, the detector's silence duration is at least the
\* session's silence_timeout_ms and the session's audio_buffer is non-empty;
\* the audio handed over is that buffer, never empty, and the buffer is empty
\* once the utterance is dispatched, so that later silent frames (also after a
\* stage failure) have nothing to dispatch again.
C33_DispatchOnlyAtUtteranceBoundary ==
    [][\A s \in Ids :
          /\ Dispatches(s) =>
                /\ ~vad'.is_speaking
                /\ get_silence_duration_ms(vad', now) >= sess[s].config.silence_timeout_ms
                /\ sess[s].audio_buffer # <<>>
                /\ run'[s]["stream"].audio = sess[s].audio_buffer
                /\ run'[s]["stream"].audio # <<>>
                /\ sess'[s].audio_buffer = <<>>
          /\ (sess[s].audio_buffer = <<>> /\ sess'[s].audio_buffer = <<>>) =>
                ~Dispatches(s)]_vars

\* an utterance of a streaming session failed in a stage, and a silent frame
\* that came after it, the silence being long enough, dispatched nothing
C33_Witness ==
    \E s \in registry :
        /\ sess[s].state = "error"
        /\ sess[s].stt_calls = 1
        /\ run[s]["stream"].pc = "none"
        /\ run[s]["http"].pc = "none"
        /\ sess[s].audio_buffer = <<>>
        /\ ~vad.is_speaking
        /\ get_silence_duration_ms(vad, now) >= sess[s].config.silence_timeout_ms

\* how many of the messages sent for an utterance are m
Count(msgs, m) == Cardinality({ i \in 1..Len(msgs) : msgs[i] = m })

\* C35: for every utterance on the streaming connection that has reply audio
\* (its transcript was not blank), the client is sent state_change
\* "processing" and the transcript before the first audio frame, and
\* state_change "speaking" once for the utterance, not once for each chunk.
C35_TranscriptBeforeAudioSpeakingOnce ==
    \A s \in Ids :
        LET msgs == run[s]["stream"].msgs
        IN  /\ \A i \in 1..Len(msgs) :
                  msgs[i] = "audio" =>
                      /\ \E j \in 1..(i - 1) : msgs[j] = "processing"
                      /\ \E j \in 1..(i - 1) : msgs[j] = "transcript"
            /\ Count(msgs, "speaking") <= 1

\* the sum over all sessions of one counter of metrics
RECURSIVE MetricTotal(_, _, _)
MetricTotal(ss, S, i) ==
    IF S = {} THEN 0
    ELSE LET s == CHOOSE x \in S : TRUE
         IN  Counters(ss[s])[i] + MetricTotal(ss, S \ {s}, i)

\* C38: for every session tts_calls <= llm_calls <= stt_calls; each counter
\* only grows, by at most one in a step of a call and by at most one over a
\* call that ran alone, and all sessions together count no more STT results
\* than there were calls; the pipeline's total_requests counts exactly the
\* utterances for which tts_calls was incremented.
C38_CountersOrderedAndCountedOnce ==
    [][/\ \A s \in Ids :
            LET a == Counters(sess[s])
                b == Counters(sess'[s])
            IN  /\ b[3] <= b[2]
                /\ b[2] <= b[1]
                /\ \A i \in 1..3 : b[i] - a[i] \in {0, 1}
                /\ \A k \in Kinds :
                      (InFlight(run[s][k]) /\ run'[s][k].pc = "done"
                          /\ ~run[s][k].overlap) =>
                          \A i \in 1..3 : b[i] - run[s][k].pre[i] \in {0, 1}
       /\ MetricTotal(sess', Ids, 1) <= nruns'
       /\ total_requests' - total_requests
              = MetricTotal(sess', Ids, 3) - MetricTotal(sess, Ids, 3)
       /\ total_requests' = MetricTotal(sess', Ids, 3)]_vars

\* a session whose first utterance was answered and whose second one failed
\* in the TTS stage
C38_Witness ==
    \E s \in Ids :
        /\ Counters(sess[s]) = <<2, 2, 1>>
        /\ total_requests = 1
        /\ sess[s].state = "error"

\* C39: at most one pipeline call is in flight for a session at any time,
\* across the streaming path (process_audio_chunk) and the non-streaming path
\* (process_complete_audio) addressing the same session id, so that no call
\* of a session runs beside another one that writes its counters, transcript
\* and state.
C39_OnePipelineCallPerSession ==
    \A s \in Ids : ~(InFlight(run[s]["stream"]) /\ InFlight(run[s]["http"]))

====
